---- MODULE Spec2Model ----
(***************************************************************************)
(* State-machine model of the snake simulation in src/src/main.rs.        *)
(*                                                                         *)
(* The program is a Bevy application.  One frame of the main loop runs,   *)
(* in this order: the event buffers' update (First), the fixed-timestep   *)
(* loop (zero or more FixedUpdate runs, in which snake_movement runs when *)
(* its 90 ms timer has fired), and the Update schedule, whose systems run *)
(* in any order the declared .before/.after constraints allow.  Entity    *)
(* commands (spawn, despawn) are deferred: they are applied at the        *)
(* synchronisation point the scheduler inserts between snake_eating and   *)
(* snake_growth, and at the end of the schedule.                          *)
(***************************************************************************)
EXTENDS Integers, Sequences, FiniteSets, TLC

VARIABLES
    pc,                 \* the schedule the main loop is in
    frame,              \* "none" before the first frame, then "first", then "later"
    ticks,              \* movement ticks run in the current frame
    total_ticks,        \* movement ticks run so far
    ran,                \* systems of Update that have run in this frame
    next_entity,        \* the next fresh entity id
    Position,           \* component table: entity -> [x, y]
    SnakeHead,          \* component table: entity -> direction
    SnakeSegment,       \* entities tagged SnakeSegment
    Food,               \* entities tagged Food
    SnakeSegments,      \* resource: Vec<Entity>, head first
    LastTailPosition,   \* resource: Option<Position>, <<>> or <<p>>
    events,             \* per event type, the two buffers' sizes [a, b]
    readers,            \* per EventReader, the number of unread events
    commands,           \* deferred entity commands not yet applied
    keyboard_input,     \* resource: the keys held down (recorded in SpecInput only)
    panicked,           \* a system panicked (an unwrap on None)
    handled_now,        \* observation: game_over handled an event this frame
    handled_ever,       \* observation: game_over has handled an event
    len_before,         \* observation: Len(SnakeSegments) at the frame's start
    growth_raised,      \* observation: GrowthEvents sent in this frame
    eaten_ever          \* observation: the Food entities snake_eating has despawned

vars == <<pc, frame, ticks, total_ticks, ran, next_entity, Position, SnakeHead,
          SnakeSegment, Food, SnakeSegments, LastTailPosition, events, readers,
          commands, keyboard_input, panicked, handled_now, handled_ever, len_before, growth_raised,
          eaten_ever>>

world == <<Position, SnakeHead, SnakeSegment, Food>>
observed == <<handled_now, handled_ever, len_before, growth_raised, eaten_ever>>
unread_game_overs == readers["game_over.game_over_reader"]

(***************************************************************************)
(* Program constants and the bounds of the model.                         *)
(***************************************************************************)
ARENA_WIDTH == 10
ARENA_HEIGHT == 10

\* Movement ticks explored.
MaxTicks == 4
\* Entity ids explored: no frame begins once this many have been handed out.
MaxEntities == 7
\* Movement ticks in one frame's fixed-timestep loop (a long frame runs several).
MaxTicksPerFrame == 2
\* random::<f32>() is drawn from the multiples of 1 / RandomSteps in (0, 1)
\* and the largest value below 1.
RandomSteps == 3

Directions == {"Up", "Down", "Right", "Left"}

opposite(self) ==
    CASE self = "Up" -> "Down"
      [] self = "Right" -> "Left"
      [] self = "Down" -> "Up"
      [] self = "Left" -> "Right"

KeyCodes == {"ArrowUp", "KeyW", "ArrowDown", "KeyS",
             "ArrowRight", "KeyD", "ArrowLeft", "KeyA"}

\* The states ButtonInput<KeyCode> can be in when a frame samples it.
AllKeyboardInputs == SUBSET KeyCodes

\* The states the game is played with: no key or one arrow key held down.
\* Every direction a set of keys asks for is asked for by one of these.
KeyboardInputs ==
    {{}} \cup {{key} : key \in {"ArrowUp", "ArrowDown", "ArrowRight", "ArrowLeft"}}

Systems == {"snake_movement_input", "snake_eating", "apply_deferred",
            "snake_growth", "spawn_food", "game_over"}

\* Mutant of after: snake_growth is not ordered after snake_eating.
after_undeclared(system) == {}

\* The ordering constraints of the Update schedule.  snake_movement is not a
\* system of Update (it is added to FixedUpdate), so the constraints that
\* name it order nothing; what is left is snake_growth.after(snake_eating),
\* with the command application the scheduler puts on that edge.
after(system) ==
    CASE system = "apply_deferred" -> {"snake_eating"}
      [] system = "snake_growth" -> {"snake_eating", "apply_deferred"}
      [] OTHER -> {}

(***************************************************************************)
(* Events: a double buffer per event type, a cursor per reader.  Only the *)
(* counts matter (the events are unit structs).                           *)
(***************************************************************************)
EventTypes == {"SpawnEvent", "GrowthEvent", "GameOverEvent"}

Readers == {"spawn_snake.spawn_reader", "spawn_food.spawn_reader",
            "spawn_food.growth_reader", "snake_growth.growth_reader",
            "game_over.game_over_reader"}

reads(reader) ==
    CASE reader \in {"spawn_snake.spawn_reader", "spawn_food.spawn_reader"} -> "SpawnEvent"
      [] reader \in {"spawn_food.growth_reader", "snake_growth.growth_reader"} -> "GrowthEvent"
      [] OTHER -> "GameOverEvent"

Min(a, b) == IF a < b THEN a ELSE b

Max(S) == CHOOSE m \in S : \A o \in S : o <= m

\* An event every reader of its type has read is never read again: the
\* buffers keep only the events some reader has not read, the newest ones.
trimmed(ev, rd) ==
    [ev |-> [t \in EventTypes |->
               LET unread == Max({rd[r] : r \in {o \in Readers : reads(o) = t}})
                   b == Min(ev[t].b, unread)
               IN [a |-> Min(ev[t].a, unread - b), b |-> b]],
     rd |-> rd]

\* EventWriter::send n times: the events join the newer buffer, unread by all.
sent(ev, rd, type, n) ==
    trimmed([ev EXCEPT ![type].b = @ + n],
            [r \in Readers |-> IF reads(r) = type THEN rd[r] + n ELSE rd[r]])

\* EventReader::read().next().is_some(): is there an unread event.
has_next(rd, reader) == rd[reader] > 0

\* Mutant of consumed: the reader's cursor does not advance.
consumed_nothing(ev, rd, reader) == trimmed(ev, rd)

\* EventReader::read().next(): one unread event, if any, is consumed; the
\* others stay unread.
consumed(ev, rd, reader) ==
    trimmed(ev, [rd EXCEPT ![reader] = IF @ > 0 THEN @ - 1 ELSE 0])

\* Events::update: the older buffer is dropped, the newer becomes the older.
event_update(ev, rd) ==
    trimmed([t \in EventTypes |-> [a |-> ev[t].b, b |-> 0]],
            [r \in Readers |-> Min(rd[r], ev[reads(r)].b)])

(***************************************************************************)
(* Deferred commands.                                                      *)
(***************************************************************************)
RECURSIVE applied_spawns_only(_, _)
\* Mutant of applied: despawn commands are dropped.
applied_spawns_only(w, q) ==
    IF q = <<>> THEN w
    ELSE LET c == Head(q)
             e == c.entity
         IN applied_spawns_only(
                IF c.op = "spawn"
                THEN [Position |-> [i \in DOMAIN w.Position \cup {e} |->
                                       IF i = e THEN c.position ELSE w.Position[i]],
                      SnakeHead |-> IF c.head = <<>> THEN w.SnakeHead
                                    ELSE [i \in DOMAIN w.SnakeHead \cup {e} |->
                                            IF i = e THEN c.head[1] ELSE w.SnakeHead[i]],
                      SnakeSegment |-> IF c.segment THEN w.SnakeSegment \cup {e}
                                       ELSE w.SnakeSegment,
                      Food |-> IF c.food THEN w.Food \cup {e} ELSE w.Food]
                ELSE w,
                Tail(q))

RECURSIVE applied(_, _)
\* The world after the commands of queue q, in order.
applied(w, q) ==
    IF q = <<>> THEN w
    ELSE LET c == Head(q)
             e == c.entity
             w1 == IF c.op = "spawn"
                   THEN [Position |-> [i \in DOMAIN w.Position \cup {e} |->
                                          IF i = e THEN c.position ELSE w.Position[i]],
                         SnakeHead |-> IF c.head = <<>> THEN w.SnakeHead
                                       ELSE [i \in DOMAIN w.SnakeHead \cup {e} |->
                                               IF i = e THEN c.head[1] ELSE w.SnakeHead[i]],
                         SnakeSegment |-> IF c.segment THEN w.SnakeSegment \cup {e}
                                          ELSE w.SnakeSegment,
                         Food |-> IF c.food THEN w.Food \cup {e} ELSE w.Food]
                   ELSE [Position |-> [i \in DOMAIN w.Position \ {e} |-> w.Position[i]],
                         SnakeHead |-> [i \in DOMAIN w.SnakeHead \ {e} |-> w.SnakeHead[i]],
                         SnakeSegment |-> w.SnakeSegment \ {e},
                         Food |-> w.Food \ {e}]
         IN applied(w1, Tail(q))

the_world == [Position |-> Position, SnakeHead |-> SnakeHead,
              SnakeSegment |-> SnakeSegment, Food |-> Food]

apply(q) ==
    LET w == applied(the_world, q)
    IN /\ Position' = w.Position
       /\ SnakeHead' = w.SnakeHead
       /\ SnakeSegment' = w.SnakeSegment
       /\ Food' = w.Food

spawn(e, head, segment, food, position) ==
    [op |-> "spawn", entity |-> e, head |-> head, segment |-> segment,
     food |-> food, position |-> position]

despawn(e) == [op |-> "despawn", entity |-> e]

(***************************************************************************)
(* The pure parts of the systems.                                         *)
(***************************************************************************)
pressed(keys, key) == key \in keys

\* Mutant of candidate: Left is tried before Right.
candidate_left_first(keys, current) ==
    IF pressed(keys, "ArrowUp") \/ pressed(keys, "KeyW") THEN "Up"
    ELSE IF pressed(keys, "ArrowDown") \/ pressed(keys, "KeyS") THEN "Down"
    ELSE IF pressed(keys, "ArrowLeft") \/ pressed(keys, "KeyA") THEN "Left"
    ELSE IF pressed(keys, "ArrowRight") \/ pressed(keys, "KeyD") THEN "Right"
    ELSE current

\* The direction the keys ask for: the first pressed of Up, Down, Right,
\* Left, and the head's own when none is.
candidate(keys, current) ==
    IF pressed(keys, "ArrowUp") \/ pressed(keys, "KeyW") THEN "Up"
    ELSE IF pressed(keys, "ArrowDown") \/ pressed(keys, "KeyS") THEN "Down"
    ELSE IF pressed(keys, "ArrowRight") \/ pressed(keys, "KeyD") THEN "Right"
    ELSE IF pressed(keys, "ArrowLeft") \/ pressed(keys, "KeyA") THEN "Left"
    ELSE current

\* Mutant of new_direction: the candidate is taken as it is.
new_direction_unchecked(keys, current) == candidate(keys, current)

\* head.direction after snake_movement_input.
new_direction(keys, current) ==
    LET direction == candidate(keys, current)
    IN IF direction # opposite(current) THEN direction ELSE current

\* The head's cell after one step in its direction.
stepped(p, direction) ==
    CASE direction = "Up" -> [p EXCEPT !.y = @ + 1]
      [] direction = "Down" -> [p EXCEPT !.y = @ - 1]
      [] direction = "Right" -> [p EXCEPT !.x = @ + 1]
      [] direction = "Left" -> [p EXCEPT !.x = @ - 1]

\* Mutant of out_of_bounds: the border cells count as outside.
out_of_bounds_inclusive(p) ==
    p.x <= 0 \/ p.y <= 0 \/ p.x >= ARENA_WIDTH \/ p.y >= ARENA_HEIGHT

\* The head is outside the arena.
out_of_bounds(p) ==
    p.x < 0 \/ p.y < 0 \/ p.x >= ARENA_WIDTH \/ p.y >= ARENA_HEIGHT

contains(segment_positions, p) ==
    \E i \in 1..Len(segment_positions) : segment_positions[i] = p

\* Mutant of game_overs: the self-collision check is missing.
game_overs_bounds_only(segment_positions, head_position) ==
    IF out_of_bounds(head_position) THEN 1 ELSE 0

\* Mutant of game_overs: the bounds check is missing.
game_overs_collision_only(segment_positions, head_position) ==
    IF contains(segment_positions, head_position) THEN 1 ELSE 0

\* The GameOverEvents one movement tick sends: one from the bounds check
\* and one from the self-collision check.
game_overs(segment_positions, head_position) ==
    (IF out_of_bounds(head_position) THEN 1 ELSE 0)
    + (IF contains(segment_positions, head_position) THEN 1 ELSE 0)

RECURSIVE followed_unskipped(_, _, _, _)
\* Mutant of followed: the zip does not skip the head, so every segment is
\* given back the position it had.
followed_unskipped(pos, segment_positions, segs, i) ==
    IF i > Len(segs) THEN pos
    ELSE followed_unskipped([pos EXCEPT ![segs[i]] = segment_positions[i]],
                            segment_positions, segs, i + 1)

RECURSIVE followed(_, _, _, _)
\* The zip of the snapshot with the segments after the first, from pair i on:
\* segment i+1 takes the snapshot's position i.
followed(pos, segment_positions, segs, i) ==
    IF i >= Len(segs) THEN pos
    ELSE followed([pos EXCEPT ![segs[i + 1]] = segment_positions[i]],
                  segment_positions, segs, i + 1)

\* The values random::<f32>() is drawn from, as numerators over 2^24 (the
\* generator gives the multiples of 2^-24 in [0, 1)): the multiples of
\* 1 / RandomSteps above 0, rounded down, and the largest value there is.
RandomDraws ==
    {(k * 16777216) \div RandomSteps : k \in 1..(RandomSteps - 1)} \cup {16777215}

\* Mutant of round_f32: the product is rounded up.
round_up_f32(P) ==
    LET s == CHOOSE t \in 0..6 : P < 2^(24 + t) /\ (t = 0 \/ P >= 2^(23 + t))
    IN ((P + 2^s - 1) \div 2^s) * 2^s

\* The f32 nearest to P / 2^24 (a 24-bit significand, ties to even), as a
\* numerator over 2^24.
round_f32(P) ==
    LET s == CHOOSE t \in 0..6 : P < 2^(24 + t) /\ (t = 0 \/ P >= 2^(23 + t))
        q == P \div 2^s
        r == P % 2^s
    IN (IF 2 * r > 2^s \/ (2 * r = 2^s /\ q % 2 = 1) THEN q + 1 ELSE q) * 2^s

\* (random::<f32>() * bound as f32) as i32, for the draw n / 2^24: the f32
\* product, truncated.
random_coordinate(n, bound) == round_f32(n * bound) \div 16777216

RECURSIVE in_order(_)
\* A query's entities as a sequence (by id).
in_order(S) ==
    IF S = {} THEN <<>>
    ELSE LET m == CHOOSE e \in S : \A o \in S : e <= o
         IN <<m>> \o in_order(S \ {m})

\* Mutant of spawn_segment: the entity spawned is not the one whose id is
\* returned.
spawn_segment_elsewhere(e, position) == spawn(e + 1, <<>>, TRUE, FALSE, position)

\* Mutant of spawn_segment: the segment is spawned as a second head.
spawn_segment_with_head(e, position) == spawn(e, <<"Up">>, TRUE, FALSE, position)

\* The segment snake_growth or spawn_snake spawns at a position.
spawn_segment(e, position) == spawn(e, <<>>, TRUE, FALSE, position)

\* The despawns snake_eating issues: one per (head, food) pair on one cell.
eaten ==
    LET heads == in_order(DOMAIN SnakeHead)
        foods == in_order(Food)
        RECURSIVE pairs(_, _)
        pairs(h, f) ==
            IF h > Len(heads) THEN <<>>
            ELSE IF f > Len(foods) THEN pairs(h + 1, 1)
            ELSE (IF Position[foods[f]] = Position[heads[h]]
                  THEN <<despawn(foods[f])>> ELSE <<>>) \o pairs(h, f + 1)
    IN pairs(1, 1)

(***************************************************************************)
(* The initial state: the App is built, its resources hold their defaults *)
(* and no schedule has run.                                                *)
(***************************************************************************)
Init ==
    /\ pc = "Startup"
    /\ frame = "none"
    /\ total_ticks = 0
    /\ ticks = 0
    /\ ran = {}
    /\ next_entity = 0
    /\ Position = <<>>
    /\ SnakeHead = <<>>
    /\ SnakeSegment = {}
    /\ Food = {}
    /\ SnakeSegments = <<>>
    /\ LastTailPosition = <<>>
    /\ events = [t \in EventTypes |-> [a |-> 0, b |-> 0]]
    /\ readers = [r \in Readers |-> 0]
    /\ commands = <<>>
    /\ keyboard_input = {}
    /\ panicked = FALSE
    /\ handled_now = FALSE
    /\ handled_ever = FALSE
    /\ len_before = 0
    /\ growth_raised = 0
    /\ eaten_ever = {}

(***************************************************************************)
(* Startup: (setup_camera, emit_spawn_signal, spawn_snake).chain().       *)
(* The camera takes the first entity id and carries none of the modelled  *)
(* components.                                                             *)
(***************************************************************************)
Startup ==
    /\ pc = "Startup" /\ ~panicked
    /\ LET camera == next_entity
           s == sent(events, readers, "SpawnEvent", 1)
           head == camera + 1
           segment == camera + 2
       IN /\ IF has_next(s.rd, "spawn_snake.spawn_reader")
             THEN /\ events' = consumed(s.ev, s.rd, "spawn_snake.spawn_reader").ev
                  /\ readers' = consumed(s.ev, s.rd, "spawn_snake.spawn_reader").rd
                  /\ SnakeSegments' = <<head, segment>>
                  /\ apply(<<spawn(head, <<"Up">>, TRUE, FALSE, [x |-> 3, y |-> 3]),
                             spawn_segment(segment, [x |-> 3, y |-> 2])>>)
                  /\ next_entity' = camera + 3
                  /\ len_before' = 2
             ELSE /\ events' = s.ev
                  /\ readers' = s.rd
                  /\ next_entity' = camera + 1
                  /\ UNCHANGED <<SnakeSegments, world, len_before>>
    /\ pc' = "First"
    /\ UNCHANGED <<keyboard_input, frame, ticks, total_ticks, ran, LastTailPosition, commands,
                   panicked, handled_now, handled_ever, growth_raised, eaten_ever>>

(***************************************************************************)
(* First: a frame begins.  The event buffers are updated when a fixed     *)
(* update has run since their last update: always after a frame with a    *)
(* movement tick, and after a tickless frame when it was long enough for  *)
(* one fixed timestep.  The first frame's time delta is zero, so the      *)
(* fixed loop first runs in the second frame.                              *)
(***************************************************************************)
First ==
    /\ pc = "First" /\ ~panicked
    /\ next_entity < MaxEntities
    /\ frame' = IF frame = "none" THEN "first" ELSE "later"
    /\ \E fixed_update_ran \in BOOLEAN :
          /\ ticks > 0 => fixed_update_ran
          /\ frame # "later" => ~fixed_update_ran
          /\ IF fixed_update_ran
             THEN /\ events' = event_update(events, readers).ev
                  /\ readers' = event_update(events, readers).rd
             ELSE UNCHANGED <<events, readers>>
    /\ pc' = "RunFixedMainLoop"
    /\ ticks' = 0
    /\ handled_now' = FALSE
    /\ len_before' = Len(SnakeSegments)
    /\ growth_raised' = 0
    /\ UNCHANGED <<keyboard_input, total_ticks, ran, next_entity, world, SnakeSegments,
                   LastTailPosition, commands, panicked, handled_ever, eaten_ever>>

(***************************************************************************)
(* FixedUpdate: snake_movement.run_if(on_timer(90 ms)).  A fixed update   *)
(* in which the timer has fired is a movement tick.                        *)
(***************************************************************************)
\* Mutant of without_head: the head is unwrapped, not matched.
without_head_unwrapped ==
    /\ panicked' = TRUE
    /\ UNCHANGED <<Position, LastTailPosition, events, readers>>

\* snake_movement when heads.iter_mut().next() is None: the if let has no
\* else branch.
without_head ==
    UNCHANGED <<Position, LastTailPosition, events, readers, panicked>>

snake_movement ==
    /\ pc = "RunFixedMainLoop" /\ ~panicked
    /\ frame = "later"
    /\ ticks < MaxTicksPerFrame /\ total_ticks < MaxTicks
    /\ ticks' = ticks + 1
    /\ total_ticks' = total_ticks + 1
    /\ IF DOMAIN SnakeHead = {}
       THEN without_head
       ELSE LET head_entity == CHOOSE e \in DOMAIN SnakeHead : TRUE
                direction == SnakeHead[head_entity]
            IN IF \/ SnakeSegments = <<>>
                  \/ head_entity \notin DOMAIN Position
                  \/ \E i \in 1..Len(SnakeSegments) : SnakeSegments[i] \notin DOMAIN Position
               THEN /\ panicked' = TRUE
                    /\ UNCHANGED <<Position, LastTailPosition, events, readers>>
               ELSE LET segment_positions ==
                            [i \in 1..Len(SnakeSegments) |-> Position[SnakeSegments[i]]]
                        head_position == stepped(Position[head_entity], direction)
                        s == sent(events, readers, "GameOverEvent",
                                  game_overs(segment_positions, head_position))
                    IN /\ LastTailPosition' = <<segment_positions[Len(segment_positions)]>>
                       /\ events' = s.ev
                       /\ readers' = s.rd
                       /\ Position' = followed([Position EXCEPT ![head_entity] = head_position],
                                               segment_positions, SnakeSegments, 1)
                       /\ UNCHANGED panicked
    /\ UNCHANGED <<keyboard_input, pc, frame, ran, next_entity, SnakeHead, SnakeSegment, Food,
                   SnakeSegments, commands, observed>>

(***************************************************************************)
(* The systems of Update.  Update follows the fixed loop in the frame; a   *)
(* system may run once the systems it is ordered after have run.          *)
(***************************************************************************)
runs(system) ==
    /\ pc \in {"RunFixedMainLoop", "Update"} /\ ~panicked
    /\ pc' = "Update"
    /\ system \notin ran
    /\ after(system) \subseteq ran
    /\ ran' = ran \cup {system}

\* The direction update, reading the keyboard state keys.
direction_updated(keys) ==
    /\ runs("snake_movement_input")
    /\ IF DOMAIN SnakeHead = {}
       THEN UNCHANGED SnakeHead
       ELSE LET head == CHOOSE e \in DOMAIN SnakeHead : TRUE
            IN SnakeHead' = [SnakeHead EXCEPT ![head] = new_direction(keys, @)]
    /\ UNCHANGED <<keyboard_input, frame, ticks, total_ticks, next_entity, Position,
                   SnakeSegment, Food, SnakeSegments, LastTailPosition, events, readers,
                   commands, panicked, observed>>

snake_movement_input ==
    \E keys \in KeyboardInputs : direction_updated(keys)

snake_eating ==
    /\ runs("snake_eating")
    /\ LET s == sent(events, readers, "GrowthEvent", Len(eaten))
       IN /\ commands' = commands \o eaten
          /\ events' = s.ev
          /\ readers' = s.rd
          /\ growth_raised' = growth_raised + Len(eaten)
          /\ eaten_ever' = eaten_ever \cup {eaten[i].entity : i \in 1..Len(eaten)}
    /\ UNCHANGED <<keyboard_input, frame, ticks, total_ticks, next_entity, world, SnakeSegments,
                   LastTailPosition, panicked, handled_now, handled_ever, len_before>>

\* The synchronisation point between snake_eating and snake_growth: the
\* commands of the systems that have run are applied.
apply_deferred ==
    /\ runs("apply_deferred")
    /\ apply(commands)
    /\ commands' = <<>>
    /\ UNCHANGED <<keyboard_input, frame, ticks, total_ticks, next_entity, SnakeSegments,
                   LastTailPosition, events, readers, panicked, observed>>

snake_growth ==
    /\ runs("snake_growth")
    /\ IF has_next(readers, "snake_growth.growth_reader")
       THEN IF LastTailPosition = <<>>
            THEN /\ panicked' = TRUE
                 /\ UNCHANGED <<events, readers, SnakeSegments, commands, next_entity>>
            ELSE /\ events' = consumed(events, readers, "snake_growth.growth_reader").ev
                 /\ readers' = consumed(events, readers, "snake_growth.growth_reader").rd
                 /\ SnakeSegments' = Append(SnakeSegments, next_entity)
                 /\ commands' = Append(commands,
                                       spawn_segment(next_entity, LastTailPosition[1]))
                 /\ next_entity' = next_entity + 1
                 /\ UNCHANGED panicked
       ELSE UNCHANGED <<events, readers, SnakeSegments, commands, next_entity, panicked>>
    /\ UNCHANGED <<keyboard_input, frame, ticks, total_ticks, world, LastTailPosition, observed>>

spawn_food ==
    /\ runs("spawn_food")
    /\ LET by_spawn == has_next(readers, "spawn_food.spawn_reader")
           by_growth == ~by_spawn /\ has_next(readers, "spawn_food.growth_reader")
           read == IF by_spawn THEN consumed(events, readers, "spawn_food.spawn_reader")
                   ELSE consumed(events, readers, "spawn_food.growth_reader")
       IN /\ events' = read.ev
          /\ readers' = read.rd
          /\ IF by_spawn \/ by_growth
             THEN /\ \E nx \in RandomDraws, ny \in RandomDraws :
                        commands' = Append(commands,
                            spawn(next_entity, <<>>, FALSE, TRUE,
                                  [x |-> random_coordinate(nx, ARENA_WIDTH),
                                   y |-> random_coordinate(ny, ARENA_HEIGHT)]))
                  /\ next_entity' = next_entity + 1
             ELSE UNCHANGED <<commands, next_entity>>
    /\ UNCHANGED <<keyboard_input, frame, ticks, total_ticks, world, SnakeSegments,
                   LastTailPosition, panicked, observed>>

game_over ==
    /\ runs("game_over")
    /\ IF has_next(readers, "game_over.game_over_reader")
       THEN /\ events' = consumed(events, readers, "game_over.game_over_reader").ev
            /\ readers' = consumed(events, readers, "game_over.game_over_reader").rd
            /\ commands' = commands \o
                   [i \in 1..Cardinality(Food) |-> despawn(in_order(Food)[i])] \o
                   [i \in 1..Cardinality(SnakeSegment) |-> despawn(in_order(SnakeSegment)[i])]
            /\ handled_now' = TRUE
            /\ handled_ever' = TRUE
       ELSE UNCHANGED <<events, readers, commands, handled_now, handled_ever>>
    /\ UNCHANGED <<keyboard_input, frame, ticks, total_ticks, next_entity, world, SnakeSegments,
                   LastTailPosition, panicked, len_before, growth_raised, eaten_ever>>

\* Every system of Update has run: the commands left are applied and the
\* frame ends.
EndOfFrame ==
    /\ pc = "Update" /\ ~panicked
    /\ ran = Systems
    /\ apply(commands)
    /\ commands' = <<>>
    /\ ran' = {}
    /\ pc' = "First"
    /\ UNCHANGED <<keyboard_input, frame, ticks, total_ticks, next_entity, SnakeSegments,
                   LastTailPosition, events, readers, panicked, observed>>

Next ==
    \/ Startup
    \/ First
    \/ snake_movement
    \/ snake_movement_input
    \/ snake_eating
    \/ apply_deferred
    \/ snake_growth
    \/ spawn_food
    \/ game_over
    \/ EndOfFrame

Spec == Init /\ [][Next]_vars

(***************************************************************************)
(* The direction update on its own: the first frame's Update, from every  *)
(* direction the head can have and every state of the keyboard.           *)
(***************************************************************************)
InitInput ==
    /\ pc = "RunFixedMainLoop"
    /\ frame = "first"
    /\ ticks = 0
    /\ total_ticks = 0
    /\ ran = {}
    /\ next_entity = 3
    /\ Position = (1 :> [x |-> 3, y |-> 3]) @@ (2 :> [x |-> 3, y |-> 2])
    /\ SnakeHead \in [{1} -> Directions]
    /\ SnakeSegment = {1, 2}
    /\ Food = {}
    /\ SnakeSegments = <<1, 2>>
    /\ LastTailPosition = <<>>
    /\ events = [t \in EventTypes |-> [a |-> 0, b |-> IF t = "SpawnEvent" THEN 1 ELSE 0]]
    /\ readers = [r \in Readers |-> IF r = "spawn_food.spawn_reader" THEN 1 ELSE 0]
    /\ commands = <<>>
    /\ keyboard_input \in AllKeyboardInputs
    /\ panicked = FALSE
    /\ handled_now = FALSE
    /\ handled_ever = FALSE
    /\ len_before = 2
    /\ growth_raised = 0
    /\ eaten_ever = {}

NextInput == direction_updated(keyboard_input)

SpecInput == InitInput /\ [][NextInput]_vars


(***************************************************************************)
(* Properties.                                                             *)
(***************************************************************************)
\* The head, when there is one.
the_head == CHOOSE e \in DOMAIN SnakeHead : TRUE

\* The step is a movement tick with a SnakeHead present.
head_ticked == total_ticks' = total_ticks + 1 /\ DOMAIN SnakeHead # {}

\* The GameOverEvents the step raised (a movement tick reads none).
game_overs_raised == unread_game_overs' - unread_game_overs

in_arena(p) == 0 <= p.x /\ p.x < ARENA_WIDTH /\ 0 <= p.y /\ p.y < ARENA_HEIGHT

\* One cell from p in direction d.
one_cell(p, d) ==
    [x |-> p.x + (IF d = "Right" THEN 1 ELSE IF d = "Left" THEN -1 ELSE 0),
     y |-> p.y + (IF d = "Up" THEN 1 ELSE IF d = "Down" THEN -1 ELSE 0)]

\* The positions of the body before the step, head first.
body_before == {Position[SnakeSegments[i]] : i \in 1..Len(SnakeSegments)}

\* C1: in every movement tick with a head present, GameOver raised or not,
\* the head moves one cell in its direction and every later segment of the
\* body takes the position the segment before it had before the tick.
C1_FollowTheLeader ==
    [][head_ticked =>
         /\ Position'[the_head] = one_cell(Position[the_head], SnakeHead[the_head])
         /\ \A i \in 2..Len(SnakeSegments) :
               Position'[SnakeSegments[i]] = Position[SnakeSegments[i - 1]]]_vars

\* C1 witness: scenario 2 of the spec: the head stepped Down from (3,3) onto
\* the segment's cell, GameOver is raised, and the segment moved to (3,3).
C1_Witness ==
    /\ pc = "RunFixedMainLoop" /\ ticks = 1 /\ total_ticks = 1
    /\ DOMAIN SnakeHead # {}
    /\ SnakeHead[the_head] = "Down"
    /\ Position[the_head] = [x |-> 3, y |-> 2]
    /\ Position[SnakeSegments[2]] = [x |-> 3, y |-> 3]
    /\ unread_game_overs = 1

\* C2 (as claimed): at the end of a frame in which game_over handled an
\* event, with the frame's commands applied, no Food and no SnakeSegment
\* entity exists.
C2_ClearedAfterGameOver ==
    (pc = "First" /\ handled_now) => (Food = {} /\ SnakeSegment = {})

\* What the direction opposite to d is, spelled out.
reverse_of(d) ==
    IF d = "Up" THEN "Down" ELSE IF d = "Down" THEN "Up"
    ELSE IF d = "Left" THEN "Right" ELSE "Left"

\* The step is a direction update with a head present.
input_sampled ==
    /\ "snake_movement_input" \in ran' \ ran
    /\ DOMAIN SnakeHead # {}

\* C3: a direction update never turns the head to the opposite of its
\* direction: when the keys ask for the opposite the direction is kept, and
\* otherwise it becomes what the keys ask for.
C3_NeverReverses ==
    [][input_sampled =>
         LET old == SnakeHead[the_head]
             new == SnakeHead'[the_head]
             asked == candidate(keyboard_input, old)
         IN /\ new # reverse_of(old)
            /\ asked = reverse_of(old) => new = old
            /\ asked # reverse_of(old) => new = asked]_vars

\* C3 witness: the keys asked for Down while the head went Up, and the update
\* has run: the head still goes Up.
C3_Witness ==
    /\ "snake_movement_input" \in ran
    /\ keyboard_input = {"KeyS"}
    /\ SnakeHead[the_head] = "Up"

\* C4 (as claimed): a tick that leaves the head inside the arena raises no
\* GameOver, and one that leaves it outside raises GameOver.
C4_GameOverIffOutside ==
    [][head_ticked =>
         /\ in_arena(Position'[the_head]) => game_overs_raised = 0
         /\ ~in_arena(Position'[the_head]) => game_overs_raised >= 1]_vars

\* C4 (amended): a tick that leaves the head inside the arena, on a cell no
\* segment of the body held before the tick, raises no GameOver, and one that
\* leaves it outside raises GameOver.
C4_GameOverWhenOutside ==
    [][head_ticked =>
         /\ (in_arena(Position'[the_head]) /\ Position'[the_head] \notin body_before)
               => game_overs_raised = 0
         /\ ~in_arena(Position'[the_head]) => game_overs_raised >= 1]_vars

\* C4 witness: scenario 3 of the spec: the head stepped Left out of the arena
\* and GameOver is raised.
C4_Witness ==
    /\ pc = "RunFixedMainLoop" /\ ticks >= 1
    /\ DOMAIN SnakeHead # {}
    /\ SnakeHead[the_head] = "Left"
    /\ Position[the_head].x = -1
    /\ unread_game_overs >= 1

\* C5: a tick that moves the head onto a cell the body held before the tick
\* raises exactly one GameOverEvent.
C5_OneGameOverOnSelfCollision ==
    [][(head_ticked /\ Position'[the_head] \in body_before)
          => game_overs_raised = 1]_vars

\* C5 witness: the head has just moved onto the cell the tail left, inside
\* the arena, and one GameOverEvent is unread.
C5_Witness ==
    /\ pc = "RunFixedMainLoop" /\ ticks >= 1
    /\ DOMAIN SnakeHead # {}
    /\ LastTailPosition = <<Position[the_head]>>
    /\ in_arena(Position[the_head])
    /\ unread_game_overs = 1

\* C6 (as claimed): when a frame is over, by its end or by a panic, the body
\* list is as much longer than at the frame's start as GrowthEvents were
\* raised in the frame, which is none or one.
C6_LengthGrowsByGrowthEvents ==
    (panicked \/ (pc = "First" /\ frame # "none")) =>
        /\ Len(SnakeSegments) = len_before + growth_raised
        /\ growth_raised \in {0, 1}

\* C7 (as claimed): a segment snake_growth appends is placed at a
\* LastTailPosition a movement tick of the same frame captured.
C7_GrowthAtThisTicksTail ==
    [][("snake_growth" \in ran' \ ran /\ Len(SnakeSegments') > Len(SnakeSegments))
          => /\ ticks > 0
             /\ SnakeSegments' = Append(SnakeSegments, next_entity)
             /\ \E i \in 1..Len(commands') :
                   /\ commands'[i].op = "spawn"
                   /\ commands'[i].entity = next_entity
                   /\ <<commands'[i].position>> = LastTailPosition]_vars

\* C8 (as claimed): from the frame after the one in which game_over handled
\* an event, no SnakeHead, SnakeSegment or Food exists and no Growth or
\* GameOver event is raised.
C8_Terminal ==
    [][(handled_ever /\ ~handled_now) =>
          /\ DOMAIN SnakeHead' = {} /\ SnakeSegment' = {} /\ Food' = {}
          /\ growth_raised' = 0
          /\ unread_game_overs' <= unread_game_overs]_vars

\* The despawn of entity e is in the command queue.
despawn_queued(e) == \E i \in 1..Len(commands) : commands[i] = despawn(e)

\* Every segment is inside the arena, or a GameOverEvent is unread, or the
\* segment's despawn is queued.
inside_or_over ==
    \A e \in SnakeSegment :
        in_arena(Position[e]) \/ unread_game_overs > 0 \/ despawn_queued(e)

\* C9: a segment is outside the arena only from a tick that raised GameOver
\* to the despawn that handles it, and a tick that moves the head outside the
\* arena raises GameOver.
C9_InsideUnlessGameOver ==
    [][/\ inside_or_over'
       /\ (head_ticked /\ ~in_arena(Position'[the_head])) => game_overs_raised >= 1]_vars

\* C9 witness: game_over has read the event of a tick that took the head out
\* of the arena; the head's despawn is queued.
C9_Witness ==
    /\ pc = "Update" /\ handled_now
    /\ DOMAIN SnakeHead # {}
    /\ ~in_arena(Position[the_head])
    /\ despawn_queued(the_head)
    /\ unread_game_overs = 0

C11_SpawnedOnce ==
    /\ (pc = "First" /\ frame = "none") =>
          /\ Cardinality(DOMAIN SnakeHead) = 1
          /\ SnakeHead[the_head] = "Up"
          /\ Position[the_head] = [x |-> 3, y |-> 3]
          /\ Cardinality(SnakeSegment \ DOMAIN SnakeHead) = 1
          /\ \A e \in SnakeSegment \ DOMAIN SnakeHead :
                /\ Position[e] = [x |-> 3, y |-> 2]
                /\ SnakeSegments = <<the_head, e>>
          /\ Food = {}
          /\ readers["spawn_food.spawn_reader"] = 1
    /\ (pc = "First" /\ frame = "first") => Cardinality(Food) = 1
    /\ frame = "later" =>
          /\ readers["spawn_food.spawn_reader"] = 0
          /\ readers["spawn_snake.spawn_reader"] = 0
    /\ pc # "Startup" =>
          /\ Cardinality(DOMAIN SnakeHead) <= 1
          /\ DOMAIN SnakeHead # {} => SnakeSegments[1] = the_head
          /\ \A i \in 1..Len(commands) :
                commands[i].op = "spawn" => commands[i].head = <<>>

\* C11 witness: the first frame is over: the snake is as Startup made it and
\* the one Food of the SpawnEvent exists.
C11_Witness ==
    /\ pc = "First" /\ frame = "first"
    /\ Cardinality(Food) = 1
    /\ Cardinality(DOMAIN SnakeHead) = 1
    /\ Position[the_head] = [x |-> 3, y |-> 3]
    /\ SnakeSegments = <<the_head, the_head + 1>>

\* The events spawn_food has not read yet.
unread_by_spawn_food ==
    readers["spawn_food.spawn_reader"] + readers["spawn_food.growth_reader"]

\* The command spawns a Food.
spawns_food(c) == c.op = "spawn" /\ c.food

food_on_head ==
    IF DOMAIN SnakeHead = {} THEN {}
    ELSE {f \in Food : Position[f] = Position[the_head]}

\* The commands the step queued.
queued == {commands'[i] : i \in (Len(commands) + 1)..Len(commands')}

\* C13: snake_eating queues the despawn of every Food on the head's cell and
\* raises one GrowthEvent for each, and does neither for a Food elsewhere;
\* a Food whose despawn is queued is gone once the commands are applied,
\* which they are by the frame's end; and no Food is eaten that has been
\* eaten before.
C13_EatenOnce ==
    [][/\ "snake_eating" \in ran' \ ran =>
             /\ queued = {[op |-> "despawn", entity |-> f] : f \in food_on_head}
             /\ Len(commands') = Len(commands) + Cardinality(food_on_head)
             /\ growth_raised' = growth_raised + Cardinality(food_on_head)
             /\ readers'["snake_growth.growth_reader"] =
                   readers["snake_growth.growth_reader"] + Cardinality(food_on_head)
             /\ Food' = Food
             /\ food_on_head \cap eaten_ever = {}
       /\ commands' = <<>> =>
             \A i \in 1..Len(commands) :
                 commands[i].op = "despawn" => commands[i].entity \notin Food'
       /\ pc' = "First" => commands' = <<>>]_vars

\* C13 witness: a Food was eaten after a movement tick, its despawn has been
\* applied, and the frame's Update is still running.
C13_Witness ==
    /\ pc = "Update" /\ "apply_deferred" \in ran
    /\ ticks > 0 /\ growth_raised = 1
    /\ eaten_ever # {} /\ eaten_ever \cap Food = {}

\* The Foods that exist or are to exist: those alive with no despawn queued,
\* those whose spawn is queued, and one for each event spawn_food has not
\* read yet.
foods_due ==
    Cardinality({f \in Food : ~despawn_queued(f)})
    + Cardinality({i \in 1..Len(commands) : spawns_food(commands[i])})
    + unread_by_spawn_food

\* C14: at most one Food exists, and with the Foods still to be created for
\* the events raised (one for the SpawnEvent, one for the GrowthEvent of each
\* Food eaten) there is still at most one.
C14_AtMostOneFood ==
    /\ Cardinality(Food) <= 1
    /\ foods_due <= 1

\* C14 witness: at a frame's end the second Food exists, created for the
\* GrowthEvent of the first, which was eaten.
C14_Witness ==
    /\ pc = "First" /\ ~panicked
    /\ Cardinality(Food) = 1
    /\ eaten_ever # {}
    /\ Food \cap eaten_ever = {}

\* C15: with no SnakeHead, a movement tick and a direction update change no
\* Position, no direction, neither the body list nor LastTailPosition, raise
\* no GameOverEvent and do not panic.
C15_NoHeadNoOp ==
    [][(/\ DOMAIN SnakeHead = {}
        /\ total_ticks' = total_ticks + 1 \/ "snake_movement_input" \in ran' \ ran)
          => /\ UNCHANGED <<Position, SnakeHead, SnakeSegments, LastTailPosition>>
             /\ unread_game_overs' = unread_game_overs
             /\ ~panicked']_vars

\* C15 witness: after a game over took the head away, a frame has run a
\* movement tick and the direction update.
C15_Witness ==
    /\ DOMAIN SnakeHead = {} /\ handled_ever
    /\ ticks > 0 /\ "snake_movement_input" \in ran
    /\ ~panicked

\* The logical direction d is pressed: one of its two keys is down.
direction_pressed(d) ==
    CASE d = "Up" -> keyboard_input \cap {"ArrowUp", "KeyW"} # {}
      [] d = "Down" -> keyboard_input \cap {"ArrowDown", "KeyS"} # {}
      [] d = "Right" -> keyboard_input \cap {"ArrowRight", "KeyD"} # {}
      [] d = "Left" -> keyboard_input \cap {"ArrowLeft", "KeyA"} # {}

\* The first pressed direction in the order Up, Down, Right, Left, and d
\* when none is pressed.
first_pressed(d) ==
    LET priority == <<"Up", "Down", "Right", "Left">>
        hits == {i \in 1..4 : direction_pressed(priority[i])}
    IN IF hits = {} THEN d
       ELSE priority[CHOOSE i \in hits : \A j \in hits : i <= j]

\* C16: whatever keys are down, the candidate of a direction update is the
\* first pressed of Up, Down, Right, Left and the head's direction when none
\* is pressed; the head turns to it unless it is the reverse, and keeps its
\* direction when none is pressed.
C16_PriorityOrder ==
    [][input_sampled =>
         LET old == SnakeHead[the_head]
             new == SnakeHead'[the_head]
         IN /\ candidate(keyboard_input, old) = first_pressed(old)
            /\ first_pressed(old) # reverse_of(old) => new = first_pressed(old)
            /\ (\A d \in Directions : ~direction_pressed(d)) => new = old]_vars

\* C16 witness: with Right and Left both pressed the update has run and the
\* head goes Right.
C16_Witness ==
    /\ "snake_movement_input" \in ran
    /\ keyboard_input = {"ArrowLeft", "KeyD"}
    /\ SnakeHead[the_head] = "Right"

\* The direction the last movement tick applied: the one that leads from the
\* second segment's cell, which the head held before that tick, to the head's.
last_applied ==
    CHOOSE d \in Directions :
        Position[the_head] = one_cell(Position[SnakeSegments[2]], d)

\* C17 (as claimed): a movement tick after the first applies a direction
\* that is not the reverse of the one the tick before it applied, and does
\* not move the head onto the cell of the segment behind it.
C17_NoReversalBetweenTicks ==
    [][(head_ticked /\ total_ticks >= 1) =>
          /\ SnakeHead[the_head] # reverse_of(last_applied)
          /\ Position'[the_head] # Position[SnakeSegments[2]]]_vars

\* C18 (as claimed): when snake_growth runs with a GrowthEvent to read, a
\* movement tick has set LastTailPosition, and the step does not panic.
C18_TailPositionSet ==
    [][("snake_growth" \in ran' \ ran /\ readers["snake_growth.growth_reader"] > 0)
          => (LastTailPosition # <<>> /\ ~panicked')]_vars

\* C19 (as claimed): while no GameOverEvent is unread and none is being
\* handled, no two segments of the snake are on the same cell.
C19_SegmentsDistinct ==
    (unread_game_overs = 0 /\ ~handled_now) =>
        \A a \in SnakeSegment, b \in SnakeSegment :
            a # b => Position[a] # Position[b]

\* C20: while a SnakeHead exists the body list is not empty, begins with the
\* head and lists no entity twice; in the fixed loop, where the movement
\* ticks run, every listed entity is a live segment with a Position; and no
\* movement tick panics.
C20_BodyListSound ==
    /\ DOMAIN SnakeHead # {} =>
          /\ SnakeSegments # <<>>
          /\ SnakeSegments[1] = the_head
          /\ \A i \in 1..Len(SnakeSegments), j \in 1..Len(SnakeSegments) :
                i # j => SnakeSegments[i] # SnakeSegments[j]
          /\ pc = "RunFixedMainLoop" =>
                \A i \in 1..Len(SnakeSegments) :
                    /\ SnakeSegments[i] \in DOMAIN Position
                    /\ SnakeSegments[i] \in SnakeSegment
    /\ panicked => pc # "RunFixedMainLoop"

\* C20 witness: a movement tick has run on a snake that has grown to three
\* segments.
C20_Witness ==
    /\ pc = "RunFixedMainLoop" /\ ticks > 0 /\ ~panicked
    /\ DOMAIN SnakeHead # {}
    /\ Len(SnakeSegments) = 3
    /\ LastTailPosition # <<Position[SnakeSegments[3]]>>

====
